---- MODULE Spec2Model ----
(***************************************************************************)
(* Model of internal/key/key.go of subnet-cli: the key manager's           *)
(* construction (New), key-file loading (Load, readASCII, checkKeyFileEnd) *)
(* and UTXO selection (smanager.Spends, smanager.spend).                   *)
(*                                                                         *)
(* Strings and byte slices are sequences of byte values 0..255.            *)
(* uint64 values are kept at a reduced width (Width bits): every addition  *)
(* of the code is taken modulo Modulus, as Go takes it modulo 2^64.        *)
(*                                                                         *)
(* The libraries the file calls are modelled by what they do for it:       *)
(* Keychain.Spend by the owner and lock-time test, SortTransferableInputs  *)
(* by a sort on (TxID, OutputIndex), hex.DecodeString digit by digit, and  *)
(* the CB58 codec by a code with a checksum over 16 characters of its      *)
(* alphabet. The address derivation of New (getHRP, updateAddr) is left    *)
(* out: it decides no branch of New or Load.                               *)
(***************************************************************************)
EXTENDS Integers, Sequences, FiniteSets, TLC

VARIABLES
    outputs,              \* Spends: the caller's candidate list (outputs []*avax.UTXO)
    targetAmount,         \* Op.targetAmount
    feeDeduct,            \* Op.feeDeduct
    time,                 \* Op.time
    idx,                  \* position of the range loop in outputs (1-based)
    totalBalanceToSpend,  \* named result of Spends
    inputs,               \* named result of Spends
    pc,                   \* "loop", "break", "done" for Spends; "idle" otherwise
    tried,                \* history: positions of outputs handed to m.spend
    picked,               \* history: positions whose input was appended, in order
    given,                \* history: the candidate list as passed by the caller
    kb,                   \* Load: contents of the key file
    loaded,               \* Load: its result
    op,                   \* New: the Op built by applyOpts
    made                  \* New: its result

vars == <<outputs, targetAmount, feeDeduct, time, idx, totalBalanceToSpend,
          inputs, pc, tried, picked, given, kb, loaded, op, made>>

spendsVars == <<outputs, targetAmount, feeDeduct, time, idx,
                totalBalanceToSpend, inputs, pc, tried, picked, given>>
loadVars == <<kb, loaded>>
newVars == <<op, made>>

(***************************************************************************)
(* Bounds                                                                  *)
(***************************************************************************)
\* width of the model's unsigned integers (uint64 in the code)
Width == 5
\* longest candidate list handed to Spends
MaxOutputs == 3
\* longest trailer after the 64 characters of a key file
MaxTrailer == 4

Modulus == 2 ^ Width
MaxUint == Modulus - 1
Half == Modulus \div 2

(***************************************************************************)
(* Sequence helpers                                                        *)
(***************************************************************************)
RECURSIVE SeqsUpTo(_, _)
SeqsUpTo(S, n) ==
    IF n = 0 THEN {<<>>}
    ELSE LET shorter == SeqsUpTo(S, n - 1)
         IN  shorter \cup {Append(s, x) : s \in {t \in shorter : Len(t) = n - 1}, x \in S}

Range(s) == {s[i] : i \in 1..Len(s)}

RECURSIVE SumSeq(_)
\* unbounded integer sum, used by the properties only
SumSeq(s) == IF s = <<>> THEN 0 ELSE s[1] + SumSeq(Tail(s))

(***************************************************************************)
(* UTXOs and the keychain                                                  *)
(***************************************************************************)
UTXO(tx, ix, asset, kind, amt, lock, owned) ==
    [UTXOID |-> [TxID |-> tx, OutputIndex |-> ix],
     Asset  |-> asset,
     Out    |-> [kind |-> kind, Amt |-> amt, Locktime |-> lock, owned |-> owned]]

\* the outputs the caller can hold: a UTXO identifier names one output
UTXOSet ==
    { UTXO(<<1, 0>>, 0, "AVAX",  "transfer", 10,   0,        TRUE),
      UTXO(<<0, 1>>, 1, "AVAX",  "transfer", 10,   0,        TRUE),
      UTXO(<<0, 1>>, 0, "OTHER", "transfer", 10,   0,        TRUE),
      UTXO(<<1, 1>>, 0, "AVAX",  "transfer", 1,    0,        TRUE),
      UTXO(<<0, 0>>, 1, "AVAX",  "transfer", Half, 0,        TRUE),
      UTXO(<<0, 0>>, 0, "AVAX",  "transfer", 10,   5,        TRUE),
      UTXO(<<1, 0>>, 1, "AVAX",  "mint",     0,    0,        TRUE),
      UTXO(<<1, 1>>, 1, "AVAX",  "transfer", 10,   0,        FALSE) }

TargetAmounts == {0, 15, MaxUint}
FeeDeducts == {0, 1, 5}
Times == {0, 5}

\* secp256k1fx.Keychain.Spend as called by smanager.spend: the owners must
\* match the key and the lock time must have passed; a transfer output
\* gives a transfer input of the same amount, a mint output gives an input
\* that carries no amount.
KeychainSpend(out, t) ==
    IF out.owned /\ out.Locktime <= t
    THEN [err |-> "nil",
          inputf |-> IF out.kind = "transfer"
                     THEN [kind |-> "TransferInput", Amt |-> out.Amt]
                     ELSE [kind |-> "Input"]]
    ELSE [err |-> "errCantSpend"]

\* smanager.spend
spend(output, t) ==
    LET r == KeychainSpend(output.Out, t)
    IN  IF r.err # "nil" THEN [err |-> r.err]
        ELSE IF r.inputf.kind # "TransferInput" THEN [err |-> "ErrInvalidType"]
        ELSE [err |-> "nil", input |-> r.inputf]

\* an input that takes the asset of the fee asset instead of the output's
TransferableInputWrongAsset(out, input) ==
    [UTXOID |-> out.UTXOID, Asset |-> "AVAX", In |-> input]

\* the avax.TransferableInput built in the loop of Spends
TransferableInput(out, input) ==
    [UTXOID |-> out.UTXOID, Asset |-> out.Asset, In |-> input]

\* totalBalanceToSpend += input.Amount() on uint64
AddAmount(total, amt) == (total + amt) % Modulus

\* ret.targetAmount+ret.feeDeduct on uint64
Threshold(ta, fd) == (ta + fd) % Modulus

\* a break on reaching the threshold, not only on exceeding it
ShouldBreakAtEqual(total, ta, fd) == ta > 0 /\ total >= Threshold(ta, fd)

\* a break that forgets the sweep mode of targetAmount = 0
ShouldBreakNoSweep(total, ta, fd) == total > Threshold(ta, fd)

\* ret.targetAmount > 0 && totalBalanceToSpend > ret.targetAmount+ret.feeDeduct
ShouldBreak(total, ta, fd) == ta > 0 /\ total > Threshold(ta, fd)

RECURSIVE BytesCompare(_, _)
\* bytes.Compare on two transaction ids
BytesCompare(a, b) ==
    IF a = <<>> /\ b = <<>> THEN 0
    ELSE IF a = <<>> THEN -1
    ELSE IF b = <<>> THEN 1
    ELSE IF a[1] < b[1] THEN -1
    ELSE IF a[1] > b[1] THEN 1
    ELSE BytesCompare(Tail(a), Tail(b))

\* innerSortTransferableInputs.Less
Less(a, b) ==
    LET c == BytesCompare(a.UTXOID.TxID, b.UTXOID.TxID)
    IN  IF c = -1 THEN TRUE
        ELSE IF c = 0 THEN a.UTXOID.OutputIndex < b.UTXOID.OutputIndex
        ELSE FALSE

RECURSIVE InsertSorted(_, _)
InsertSorted(s, x) ==
    IF s = <<>> THEN <<x>>
    ELSE IF Less(x, s[Len(s)]) THEN Append(InsertSorted(SubSeq(s, 1, Len(s) - 1), x), s[Len(s)])
    ELSE Append(s, x)

\* a return without the sort
SortTransferableInputsSkipped(ins) == ins

RECURSIVE SortTransferableInputs(_)
\* avax.SortTransferableInputs: sort.Sort, an insertion sort on short slices
SortTransferableInputs(ins) ==
    IF ins = <<>> THEN <<>>
    ELSE InsertSorted(SortTransferableInputs(SubSeq(ins, 1, Len(ins) - 1)), ins[Len(ins)])

(***************************************************************************)
(* Spends                                                                  *)
(***************************************************************************)
InitSpends ==
    /\ outputs \in SeqsUpTo(UTXOSet, MaxOutputs)
    /\ given = outputs
    /\ targetAmount \in TargetAmounts
    /\ feeDeduct \in FeeDeducts
    /\ time \in Times
    /\ idx = 1
    /\ totalBalanceToSpend = 0
    /\ inputs = <<>>
    /\ pc = "loop"
    /\ tried = {}
    /\ picked = <<>>

\* a failing spend that ends the loop instead of continuing
SkipOutputAborts ==
    /\ pc = "loop"
    /\ idx <= Len(outputs)
    /\ spend(outputs[idx], time).err # "nil"
    /\ tried' = tried \cup {idx}
    /\ pc' = "break"
    /\ UNCHANGED <<outputs, targetAmount, feeDeduct, time, totalBalanceToSpend,
                   inputs, idx, picked, given>>
    /\ UNCHANGED <<loadVars, newVars>>

\* one iteration in which m.spend fails: warn and continue
SkipOutput ==
    /\ pc = "loop"
    /\ idx <= Len(outputs)
    /\ spend(outputs[idx], time).err # "nil"
    /\ tried' = tried \cup {idx}
    /\ idx' = idx + 1
    /\ UNCHANGED <<outputs, targetAmount, feeDeduct, time, totalBalanceToSpend,
                   inputs, pc, picked, given>>
    /\ UNCHANGED <<loadVars, newVars>>

\* one iteration in which m.spend succeeds: add, append, maybe break
SelectOutput ==
    /\ pc = "loop"
    /\ idx <= Len(outputs)
    /\ LET r == spend(outputs[idx], time)
       IN  /\ r.err = "nil"
           /\ totalBalanceToSpend' = AddAmount(totalBalanceToSpend, r.input.Amt)
           /\ inputs' = Append(inputs, TransferableInput(outputs[idx], r.input))
    /\ tried' = tried \cup {idx}
    /\ picked' = Append(picked, idx)
    /\ IF ShouldBreak(totalBalanceToSpend', targetAmount, feeDeduct)
       THEN pc' = "break" /\ idx' = idx
       ELSE pc' = pc /\ idx' = idx + 1
    /\ UNCHANGED <<outputs, targetAmount, feeDeduct, time, given>>
    /\ UNCHANGED <<loadVars, newVars>>

\* after the loop: sort the inputs and return
Return ==
    /\ \/ pc = "loop" /\ idx > Len(outputs)
       \/ pc = "break"
    /\ inputs' = SortTransferableInputs(inputs)
    /\ pc' = "done"
    /\ UNCHANGED <<outputs, targetAmount, feeDeduct, time, idx,
                   totalBalanceToSpend, tried, picked, given>>
    /\ UNCHANGED <<loadVars, newVars>>

Next ==
    \/ SkipOutput
    \/ SelectOutput
    \/ Return


(***************************************************************************)
(* Keys, their encoding and New                                            *)
(***************************************************************************)
privKeySize == 64
fileEndLimit == 1
\* "PrivateKey-"
privKeyEncPfx == <<80, 114, 105, 118, 97, 116, 101, 75, 101, 121, 45>>

RECURSIVE Flatten(_)
Flatten(ss) == IF ss = <<>> THEN <<>> ELSE ss[1] \o Flatten(Tail(ss))

\* the checksum formatting.EncodeWithChecksum appends to the bytes (the tail
\* of their hash), here one byte computed from all of them
Checksum(b) == <<SumSeq(b) % 256>>

\* the 16 first characters of the CB58 alphabet, "123456789ABCDEFG"
EncodeDigit(n) == IF n < 9 THEN 49 + n ELSE 65 + (n - 9)
IsDigit(c) == (c >= 49 /\ c <= 57) \/ (c >= 65 /\ c <= 71)
DecodeDigit(c) == IF c <= 57 THEN c - 49 ELSE c - 65 + 9

\* formatting.EncodeWithChecksum(formatting.CB58, b): the bytes and their
\* checksum written in the alphabet
EncodeWithChecksum(b) ==
    LET cb == b \o Checksum(b)
    IN  Flatten([i \in 1..Len(cb) |->
                   <<EncodeDigit(cb[i] \div 16), EncodeDigit(cb[i] % 16)>>])

\* formatting.Decode(formatting.CB58, str): fails on a character outside the
\* alphabet, on a missing checksum and on a checksum that does not match
Decode(str) ==
    IF str = <<>> THEN [err |-> "nil", bytes |-> <<>>]
    ELSE IF Len(str) % 2 # 0 \/ \E i \in 1..Len(str) : ~IsDigit(str[i])
    THEN [err |-> "errBase58Decoding", bytes |-> <<>>]
    ELSE LET cb == [i \in 1..(Len(str) \div 2) |->
                      16 * DecodeDigit(str[2 * i - 1]) + DecodeDigit(str[2 * i])]
             raw == SubSeq(cb, 1, Len(cb) - 1)
         IN  IF <<cb[Len(cb)]>> # Checksum(raw)
             THEN [err |-> "errBadChecksum", bytes |-> <<>>]
             ELSE [err |-> "nil", bytes |-> raw]

IsPrefixAt(s, pfx, i) ==
    /\ i + Len(pfx) - 1 <= Len(s)
    /\ SubSeq(s, i, i + Len(pfx) - 1) = pfx

\* strings.Replace(s, pfx, "", 1): the first occurrence, wherever it is
ReplaceFirst(s, pfx) ==
    IF \E i \in 1..Len(s) : IsPrefixAt(s, pfx, i)
    THEN LET i == CHOOSE i \in 1..Len(s) :
                    /\ IsPrefixAt(s, pfx, i)
                    /\ \A j \in 1..(i - 1) : ~IsPrefixAt(s, pfx, j)
         IN  SubSeq(s, 1, i - 1) \o SubSeq(s, i + Len(pfx), Len(s))
    ELSE s

\* *crypto.PrivateKeySECP256K1R: nil, or a key known by its bytes (pk.Bytes())
NilKey == [isNil |-> TRUE, bytes |-> <<>>]
PrivateKey(b) == [isNil |-> FALSE, bytes |-> b]

\* encodePrivateKey
encodePrivateKey(pk) == privKeyEncPfx \o EncodeWithChecksum(pk.bytes)

\* decodePrivateKey; keyFactory.ToPrivateKey keeps the bytes it is given
decodePrivateKey(enc) ==
    LET d == Decode(ReplaceFirst(enc, privKeyEncPfx))
    IN  IF d.err # "nil" THEN [err |-> d.err, privKey |-> NilKey]
        ELSE [err |-> "nil", privKey |-> PrivateKey(d.bytes)]

\* the manager New builds from the resolved key
Manager(privKey, privKeyEncoded) ==
    [isNil |-> FALSE, privKeyRaw |-> privKey.bytes, privKeyEncoded |-> privKeyEncoded]
NilManager == [isNil |-> TRUE, privKeyRaw |-> <<>>, privKeyEncoded |-> <<>>]

\* return nil, e
Failure(e) == [err |-> e, m |-> NilManager]
\* no call made yet
Pending == [err |-> "pending", m |-> NilManager]

\* New that lets the decoded key overwrite the supplied one unchecked
NewOverwrites(o, fresh) ==
    LET given1 == Len(o.privKeyEncoded) > 0
        dec == decodePrivateKey(o.privKeyEncoded)
    IN  IF given1 /\ dec.err # "nil" THEN Failure(dec.err)
        ELSE LET privKey == IF given1 THEN dec.privKey
                            ELSE IF ~o.privKey.isNil THEN o.privKey
                            ELSE fresh
                 privKeyEncoded == encodePrivateKey(privKey)
             IN  IF o.privKeyEncoded # <<>> /\ o.privKeyEncoded # privKeyEncoded
                 THEN Failure("ErrInvalidPrivateKeyEncoding")
                 ELSE [err |-> "nil", m |-> Manager(privKey, privKeyEncoded)]

\* New(networkID, name, opts...): o is the Op after applyOpts, fresh the key
\* keyFactory.NewPrivateKey would generate
New(o, fresh) ==
    LET given1 == Len(o.privKeyEncoded) > 0
        dec == decodePrivateKey(o.privKeyEncoded)
    IN  IF given1 /\ dec.err # "nil" THEN Failure(dec.err)
        ELSE IF given1 /\ ~o.privKey.isNil /\ o.privKey.bytes # dec.privKey.bytes
        THEN Failure("ErrInvalidPrivateKey")
        ELSE LET privKey == IF given1 THEN dec.privKey
                            ELSE IF ~o.privKey.isNil THEN o.privKey
                            ELSE fresh
                 privKeyEncoded == encodePrivateKey(privKey)
             IN  IF o.privKeyEncoded # <<>> /\ o.privKeyEncoded # privKeyEncoded
                 THEN Failure("ErrInvalidPrivateKeyEncoding")
                 ELSE [err |-> "nil", m |-> Manager(privKey, privKeyEncoded)]

\* WithPrivateKey and WithPrivateKeyEncoded applied to an empty Op
Op(privKey, privKeyEncoded) ==
    [privKey |-> privKey, privKeyEncoded |-> privKeyEncoded]

(***************************************************************************)
(* Load                                                                    *)
(***************************************************************************)
IsHexChar(c) ==
    (c >= 48 /\ c <= 57) \/ (c >= 97 /\ c <= 102) \/ (c >= 65 /\ c <= 70)
\* encoding/hex fromHexChar
fromHexChar(c) ==
    IF c >= 48 /\ c <= 57 THEN c - 48
    ELSE IF c >= 97 /\ c <= 102 THEN c - 97 + 10
    ELSE c - 65 + 10

\* hex.DecodeString
DecodeString(str) ==
    IF \E i \in 1..Len(str) : ~IsHexChar(str[i])
    THEN [err |-> "hex.InvalidByteError", bytes |-> <<>>]
    ELSE IF Len(str) % 2 # 0 THEN [err |-> "hex.ErrLength", bytes |-> <<>>]
    ELSE [err |-> "nil",
          bytes |-> [i \in 1..(Len(str) \div 2) |->
                       16 * fromHexChar(str[2 * i - 1]) + fromHexChar(str[2 * i])]]

RECURSIVE readASCIIHexOnly(_, _, _)
\* a reader that also stops at printable characters that are not hex digits
readASCIIHexOnly(data, size, n) ==
    IF n >= size THEN [n |-> n, rest |-> data]
    ELSE IF data = <<>> THEN [n |-> n, rest |-> data]
    ELSE IF data[1] < 33 \/ ~IsHexChar(data[1]) THEN [n |-> n, rest |-> Tail(data)]
    ELSE readASCIIHexOnly(Tail(data), size, n + 1)

RECURSIVE readASCII(_, _, _)
\* readASCII(buf, r) with len(buf) = size: n counts the bytes stored so far,
\* data is what the reader still holds; the result is n and the reader left
readASCII(data, size, n) ==
    IF n >= size THEN [n |-> n, rest |-> data]
    ELSE IF data = <<>> THEN [n |-> n, rest |-> data]
    ELSE IF data[1] < 33 THEN [n |-> n, rest |-> Tail(data)]
    ELSE readASCII(Tail(data), size, n + 1)

RECURSIVE checkKeyFileEndStrict(_, _)
\* an end check that allows one byte less
checkKeyFileEndStrict(data, i) ==
    IF data = <<>> THEN "nil"
    ELSE IF data[1] # 10 /\ data[1] # 13 THEN "ErrInvalidPrivateKeyEnding"
    ELSE IF i >= fileEndLimit THEN "ErrInvalidPrivateKeyLen"
    ELSE checkKeyFileEndStrict(Tail(data), i + 1)

RECURSIVE checkKeyFileEndCountFirst(_, _)
\* an end check that looks at the count before it looks at the byte
checkKeyFileEndCountFirst(data, i) ==
    IF data = <<>> THEN "nil"
    ELSE IF i > fileEndLimit THEN "ErrInvalidPrivateKeyLen"
    ELSE IF data[1] # 10 /\ data[1] # 13 THEN "ErrInvalidPrivateKeyEnding"
    ELSE checkKeyFileEndCountFirst(Tail(data), i + 1)

RECURSIVE checkKeyFileEnd(_, _)
\* checkKeyFileEnd(r): data is what the reader still holds, i is idx
checkKeyFileEnd(data, i) ==
    IF data = <<>> THEN "nil"
    ELSE IF data[1] # 10 /\ data[1] # 13 THEN "ErrInvalidPrivateKeyEnding"
    ELSE IF i > fileEndLimit THEN "ErrInvalidPrivateKeyLen"
    ELSE checkKeyFileEnd(Tail(data), i + 1)

\* Load(networkID, keyPath) on a file that holds file; fresh as in New
LoadFile(file, fresh) ==
    LET k == New(Op(NilKey, file), fresh)
        r == readASCII(file, privKeySize, 0)
        buf == SubSeq(file, 1, r.n)
        end == checkKeyFileEnd(r.rest, 0)
        sk == DecodeString(buf)
    IN  IF k.err = "nil" THEN k
        ELSE IF r.n # privKeySize THEN Failure("ErrInvalidPrivateKeyLen")
        ELSE IF end # "nil" THEN Failure(end)
        ELSE IF sk.err # "nil" THEN Failure(sk.err)
        ELSE New(Op(PrivateKey(sk.bytes), <<>>), fresh)

(***************************************************************************)
(* Inputs of New and Load                                                  *)
(***************************************************************************)
\* key files of 64 hex characters: "aa..", "1F1F..", "0909.."
HexBodies ==
    { [i \in 1..privKeySize |-> 97],
      [i \in 1..privKeySize |-> IF i % 2 = 1 THEN 49 ELSE 70],
      [i \in 1..privKeySize |-> IF i % 2 = 1 THEN 48 ELSE 57] }

Keys == {PrivateKey(DecodeString(h).bytes) : h \in HexBodies}

\* \n, \r, space, 'a', 'g'
TrailerBytes == {10, 13, 32, 97, 103}
\* NUL, \n, \r, space, 'G', 'g', 'z', 0xff
NonHexBytes == {0, 10, 13, 32, 71, 103, 122, 255}

EncodedStrings ==
    {<<>>, <<103, 103>>, privKeyEncPfx \o <<49, 49, 49>>}
    \cup UNION { LET e == EncodeWithChecksum(k.bytes)
                 IN  { privKeyEncPfx \o e,
                       e,
                       SubSeq(e, 1, 2) \o privKeyEncPfx \o SubSeq(e, 3, Len(e)),
                       privKeyEncPfx \o privKeyEncPfx \o e,
                       privKeyEncPfx \o SubSeq(e, 1, Len(e) - 1) \o <<50>>,
                       privKeyEncPfx \o e \o <<10>> } : k \in Keys }

KeyFiles ==
    {h \o t : h \in HexBodies, t \in SeqsUpTo(TrailerBytes, MaxTrailer)}
    \cup {[h EXCEPT ![p] = b] \o t :
            h \in HexBodies, p \in 1..privKeySize, b \in NonHexBytes,
            t \in {<<>>, <<10>>, <<103>>}}
    \cup {SubSeq(h, 1, n) : h \in HexBodies, n \in 0..(privKeySize - 1)}
    \cup EncodedStrings

InitNew ==
    /\ op \in {Op(k, e) : k \in Keys \cup {NilKey}, e \in EncodedStrings}
    /\ made = Pending

NewStep ==
    /\ made = Pending
    /\ \E fresh \in Keys : made' = New(op, fresh)
    /\ UNCHANGED <<op, spendsVars, loadVars>>

InitLoad ==
    /\ kb \in KeyFiles
    /\ loaded = Pending

LoadStep ==
    /\ loaded = Pending
    /\ \E fresh \in Keys : loaded' = LoadFile(kb, fresh)
    /\ UNCHANGED <<kb, spendsVars, newVars>>

IdleSpends ==
    /\ outputs = <<>> /\ given = <<>> /\ targetAmount = 0 /\ feeDeduct = 0
    /\ time = 0 /\ idx = 1 /\ totalBalanceToSpend = 0 /\ inputs = <<>>
    /\ pc = "idle" /\ tried = {} /\ picked = <<>>
IdleLoad == kb = <<>> /\ loaded = Pending
IdleNew == op = Op(NilKey, <<>>) /\ made = Pending

InitNewSpec == InitNew /\ IdleSpends /\ IdleLoad
InitLoadSpec == InitLoad /\ IdleSpends /\ IdleNew
Init == InitSpends /\ IdleLoad /\ IdleNew

SpecNew == InitNewSpec /\ [][NewStep]_vars
SpecLoad == InitLoadSpec /\ [][LoadStep]_vars

Spec == Init /\ [][Next]_vars

(***************************************************************************)
(* Properties of Spends                                                    *)
(***************************************************************************)
Positions == 1..Len(outputs)
Spendable(p) == spend(outputs[p], time).err = "nil"
InputOf(p) == [UTXOID |-> outputs[p].UTXOID, Asset |-> outputs[p].Asset,
               In |-> [kind |-> "TransferInput", Amt |-> outputs[p].Out.Amt]]
AmountsAt(ps) == [j \in 1..Len(ps) |-> outputs[ps[j]].Out.Amt]
\* the sum of uint64 values as a uint64
SumUint(s) == SumSeq(s) % Modulus
\* the running total after the first k selected inputs
RunningTotal(k) == SumUint(AmountsAt(SubSeq(picked, 1, k)))
Stopped == pc \in {"break", "done"}
Returned == pc = "done"
IsSorted(ins) == \A i, j \in 1..Len(ins) : i < j => ~Less(ins[j], ins[i])
Injective(f) == \A a, b \in DOMAIN f : f[a] = f[b] => a = b
Perms(n) == {f \in [1..n -> 1..n] : Injective(f)}
\* the positions whose spend succeeds, in list order
RECURSIVE SpendablePositions(_)
SpendablePositions(n) ==
    IF n = 0 THEN <<>>
    ELSE IF Spendable(n) THEN Append(SpendablePositions(n - 1), n)
    ELSE SpendablePositions(n - 1)
AllTens == /\ Len(outputs) = 3
           /\ \A p \in Positions : Spendable(p) /\ outputs[p].Out.Amt = 10

C2_Sweep ==
    (targetAmount = 0 /\ Returned) =>
      /\ tried = Positions
      /\ picked = SpendablePositions(Len(outputs))
      /\ Len(inputs) = Len(picked)
      /\ (\A p \in Positions : Spendable(p)) =>
            /\ Len(inputs) = Len(outputs)
            /\ \E f \in Perms(Len(outputs)) :
                  \A j \in Positions : inputs[j] = InputOf(f[j])
            /\ totalBalanceToSpend = SumUint(AmountsAt([p \in Positions |-> p]))
            /\ IsSorted(inputs)

C2_Witness ==
    /\ Returned /\ targetAmount = 0 /\ feeDeduct = 5
    /\ Len(outputs) = MaxOutputs
    /\ \A p \in Positions : Spendable(p)
    /\ Len(inputs) = MaxOutputs
    /\ totalBalanceToSpend > 5

\* C3: a candidate whose spend fails (keychain error or a result that is
\* not a transferable input) adds nothing to the total or the inputs and
\* does not end the loop: the selection is the one made on the list of the
\* spendable candidates alone, a prefix of it that ends only where the
\* threshold is passed. With no spendable candidate, or none at all, the
\* call returns total 0 and no inputs.
C3_FailedSpendSkipped ==
    LET good == SpendablePositions(Len(outputs))
    IN  /\ \A p \in tried : ~Spendable(p) => p \notin Range(picked)
        /\ Len(picked) <= Len(good)
        /\ picked = SubSeq(good, 1, Len(picked))
        /\ Len(inputs) = Len(picked)
        /\ totalBalanceToSpend = RunningTotal(Len(picked))
        /\ pc = "loop" => tried = 1..(idx - 1)
        /\ Stopped =>
              \/ tried = Positions /\ picked = good
              \/ ShouldBreak(totalBalanceToSpend, targetAmount, feeDeduct)
        /\ pc = "break" => picked # <<>> /\ picked[Len(picked)] = idx
        /\ (Returned /\ good = <<>>) =>
              totalBalanceToSpend = 0 /\ inputs = <<>>

C3_Witness ==
    /\ Returned
    /\ Len(outputs) = 3
    /\ ~Spendable(1) /\ ~Spendable(2) /\ Spendable(3)
    /\ outputs[1].Out.kind = "mint" /\ outputs[2].Out.kind = "transfer"
    /\ picked = <<3>>
    /\ Len(inputs) = 1

\* C4: the returned inputs are sorted ascending by UTXO identifier
\* (transaction id, then output index) and are a permutation of the inputs
\* the loop selected; the returned sequence is the same for every order in
\* which the same inputs could have been selected.
C4_SortedOutput ==
    Returned =>
      /\ IsSorted(inputs)
      /\ Len(inputs) = Len(picked)
      /\ \E f \in Perms(Len(picked)) :
            \A j \in 1..Len(picked) : inputs[j] = InputOf(picked[f[j]])
      /\ \A f \in Perms(Len(picked)) :
            SortTransferableInputs([j \in 1..Len(picked) |-> InputOf(picked[f[j]])]) = inputs

C4_Witness ==
    /\ Returned
    /\ Len(picked) = 3
    /\ Less(InputOf(picked[3]), InputOf(picked[2]))
    /\ Less(InputOf(picked[2]), InputOf(picked[1]))
    /\ inputs[1] = InputOf(picked[3])

\* C5: after every iteration and at return the inputs correspond one to one
\* to distinct positions of the candidate list whose spend succeeded, each
\* with the UTXO id and the asset id of its UTXO and the amount of its spend;
\* there are no more inputs than candidates, the total is the sum of the
\* inputs' amounts (as a uint64) and the candidate list is unchanged.
C5_InputsMatchCandidates ==
    /\ Len(inputs) = Len(picked)
    /\ Len(inputs) <= Len(outputs)
    /\ Injective(picked)
    /\ \A j \in 1..Len(picked) :
          picked[j] \in Positions /\ picked[j] \in tried /\ Spendable(picked[j])
    /\ \E f \in Perms(Len(picked)) :
          \A j \in 1..Len(picked) :
            /\ inputs[j].UTXOID = outputs[picked[f[j]]].UTXOID
            /\ inputs[j].Asset = outputs[picked[f[j]]].Asset
            /\ inputs[j].In = spend(outputs[picked[f[j]]], time).input
            /\ inputs[j].In.Amt = outputs[picked[f[j]]].Out.Amt
            /\ ~Returned => f[j] = j
    /\ totalBalanceToSpend = SumUint([j \in 1..Len(inputs) |-> inputs[j].In.Amt])
    /\ outputs = given

C5_Witness ==
    /\ Returned
    /\ Len(inputs) = 2
    /\ Len(outputs) = 3
    /\ inputs[1].Asset = "OTHER"
    /\ inputs[2].Asset = "AVAX"
    /\ totalBalanceToSpend = 11

\* C10: for all uint64 values of targetAmount > 0, feeDeduct and the
\* amounts, a candidate is left untried only if the unbounded sum of the
\* selected amounts is above the unbounded sum targetAmount + feeDeduct, and
\* the loop does not run on once that sum is passed: wraparound changes
\* neither.
C10_NoWraparoundEffect ==
    (Returned /\ targetAmount > 0) =>
      /\ (tried # Positions) =>
            SumSeq(AmountsAt(picked)) > targetAmount + feeDeduct
      /\ \A k \in 0..(Len(picked) - 1) :
            SumSeq(AmountsAt(SubSeq(picked, 1, k))) <= targetAmount + feeDeduct

(***************************************************************************)
(* Properties of New and Load                                              *)
(***************************************************************************)
Called == made # Pending
BothGiven == ~op.privKey.isNil /\ op.privKeyEncoded # <<>>

\* C9: New with a raw key and an encoded string that decodes to another key
\* fails with ErrInvalidPrivateKey and returns no manager; with a string
\* that decodes to the same key it succeeds, Raw() being the supplied bytes
\* and Encode() the supplied string, unless the string differs from the
\* recomputed encoding, which fails with ErrInvalidPrivateKeyEncoding.
C9_ConstructionConsistency ==
    LET d == decodePrivateKey(op.privKeyEncoded)
    IN  (Called /\ BothGiven /\ d.err = "nil") =>
          IF d.privKey.bytes # op.privKey.bytes
          THEN made.err = "ErrInvalidPrivateKey" /\ made.m.isNil
          ELSE IF op.privKeyEncoded = privKeyEncPfx \o EncodeWithChecksum(op.privKey.bytes)
          THEN /\ made.err = "nil"
               /\ ~made.m.isNil
               /\ made.m.privKeyRaw = op.privKey.bytes
               /\ made.m.privKeyEncoded = op.privKeyEncoded
          ELSE made.err = "ErrInvalidPrivateKeyEncoding" /\ made.m.isNil

C9_Witness ==
    /\ Called /\ BothGiven
    /\ decodePrivateKey(op.privKeyEncoded).err = "nil"
    /\ decodePrivateKey(op.privKeyEncoded).privKey.bytes # op.privKey.bytes
    /\ op.privKeyEncoded = encodePrivateKey(decodePrivateKey(op.privKeyEncoded).privKey)
    /\ made.err = "ErrInvalidPrivateKey"

Acted == loaded # Pending
Min(a, b) == IF a < b THEN a ELSE b
HeadLen == Min(Len(kb), privKeySize)
TrailerOf(file) == SubSeq(file, privKeySize + 1, Len(file))
IsNewline(c) == c = 10 \/ c = 13
\* the file is the encoding of a key: the first attempt of Load takes it
ParsesAsEncoded ==
    /\ kb # <<>>
    /\ decodePrivateKey(kb).err = "nil"
    /\ privKeyEncPfx \o EncodeWithChecksum(decodePrivateKey(kb).privKey.bytes) = kb
HexHead ==
    /\ Len(kb) >= privKeySize
    /\ \A i \in 1..privKeySize : IsHexChar(kb[i])
\* what the end of the file amounts to: a byte that is no newline among the
\* three first is a bad ending, three newlines or more are too long
TrailerVerdict ==
    LET t == TrailerOf(kb)
    IN  IF \E i \in 1..Min(Len(t), 3) :
             ~IsNewline(t[i]) /\ \A j \in 1..(i - 1) : IsNewline(t[j])
        THEN "ErrInvalidPrivateKeyEnding"
        ELSE IF Len(t) >= 3 THEN "ErrInvalidPrivateKeyLen"
        ELSE "nil"

\* C6: a raw-hex key file of exactly 64 hex characters loads; so does one
\* with 1 or 2 trailing bytes that are each \n or \r; with 3 such bytes the
\* load fails with ErrInvalidPrivateKeyLen.
C6_HexFileTrailer ==
    (Acted /\ ~ParsesAsEncoded /\ HexHead
       /\ \A i \in 1..Len(TrailerOf(kb)) : IsNewline(TrailerOf(kb)[i])) =>
      /\ Len(TrailerOf(kb)) <= 2 =>
           /\ loaded.err = "nil"
           /\ ~loaded.m.isNil
           /\ \A i \in 1..(privKeySize \div 2) :
                loaded.m.privKeyRaw[i] = 16 * fromHexChar(kb[2 * i - 1]) + fromHexChar(kb[2 * i])
      /\ Len(TrailerOf(kb)) = 3 =>
           loaded.err = "ErrInvalidPrivateKeyLen" /\ loaded.m.isNil

C6_Witness ==
    /\ Acted /\ ~ParsesAsEncoded /\ HexHead
    /\ TrailerOf(kb) = <<13, 10>>
    /\ loaded.err = "nil"
    /\ Len(loaded.m.privKeyRaw) = 32

NonHexInHead == \E p \in 1..HeadLen : ~IsHexChar(kb[p])

\* C7 as stated: a raw-hex key file with a non-hex byte before position 64,
\* control byte or printable, fails with ErrInvalidPrivateKeyLen wherever
\* the byte stands.
C7_NonHexIsLenError ==
    (Acted /\ ~ParsesAsEncoded /\ NonHexInHead) =>
      loaded.err = "ErrInvalidPrivateKeyLen"

\* C7 as amended: such a file fails to load wherever the byte stands. The
\* error is ErrInvalidPrivateKeyLen when a byte below 0x21 stands among the
\* first 64 or the file is shorter than 64 bytes; when the first 64 bytes
\* are all printable it is the error of the end check if the trailer is
\* invalid and the hex decoder's invalid byte error otherwise.
C7_NonHexFails ==
    (Acted /\ ~ParsesAsEncoded /\ NonHexInHead) =>
      /\ loaded.m.isNil
      /\ loaded.err =
           IF Len(kb) < privKeySize \/ \E p \in 1..HeadLen : kb[p] < 33
           THEN "ErrInvalidPrivateKeyLen"
           ELSE IF TrailerVerdict # "nil" THEN TrailerVerdict
           ELSE "hex.InvalidByteError"

C7_Witness ==
    /\ Acted /\ ~ParsesAsEncoded
    /\ Len(kb) = privKeySize
    /\ kb[privKeySize] = 103
    /\ loaded.err = "hex.InvalidByteError"

BadTrailer ==
    /\ HexHead
    /\ \E i \in 1..Len(TrailerOf(kb)) : ~IsNewline(TrailerOf(kb)[i])

\* C8 as stated: 64 hex characters followed by a trailer that holds a byte
\* other than \n or \r fail with ErrInvalidPrivateKeyEnding wherever that
\* byte stands, also after three or more \n or \r bytes.
C8_BadTrailerIsEndingError ==
    (Acted /\ ~ParsesAsEncoded /\ BadTrailer) =>
      loaded.err = "ErrInvalidPrivateKeyEnding"

\* C8 as amended: such a file fails with ErrInvalidPrivateKeyEnding when
\* the first byte that is not \n or \r is the first, second or third byte
\* of the trailer; when three or more \n or \r bytes come before it, the
\* load fails with ErrInvalidPrivateKeyLen.
C8_BadTrailerFails ==
    (Acted /\ ~ParsesAsEncoded /\ BadTrailer) =>
      LET t == TrailerOf(kb)
          first == CHOOSE i \in 1..Len(t) :
                     ~IsNewline(t[i]) /\ \A j \in 1..(i - 1) : IsNewline(t[j])
      IN  /\ loaded.m.isNil
          /\ loaded.err = IF first <= 3 THEN "ErrInvalidPrivateKeyEnding"
                          ELSE "ErrInvalidPrivateKeyLen"

C8_Witness ==
    /\ Acted /\ ~ParsesAsEncoded /\ HexHead
    /\ TrailerOf(kb) = <<10, 13, 103>>
    /\ loaded.err = "ErrInvalidPrivateKeyEnding"

====
